---- MODULE Spec2Model ----
(***************************************************************************)
(* Model of goamis (src/main.go): a page-configuration server that keeps   *)
(* named JSON documents in one bolt bucket ("page"), seeds the bucket from *)
(* the embedded static directory at start-up and serves list / get /       *)
(* delete / save handlers concurrently on one shared store handle.         *)
(*                                                                         *)
(* Strings that the code inspects byte by byte (paths, file names, keys)   *)
(* are sequences of byte values; documents are opaque strings.             *)
(***************************************************************************)
EXTENDS Integers, Sequences, FiniteSets, TLC

\* ------------------------------------------------------------------ bounds
\* Requests accepted plus process restarts in one behaviour.
MaxRequests == 2

\* ------------------------------------------------------- byte-string helpers
\* strings.LastIndexByte: the largest index holding c, 0 when there is none.
RECURSIVE LastIndexByte(_, _)
LastIndexByte(s, c) ==
    IF Len(s) = 0 THEN 0
    ELSE IF s[Len(s)] = c THEN Len(s)
    ELSE LastIndexByte(SubSeq(s, 1, Len(s) - 1), c)

\* filepath.Split(path): the file-name part after the last '/' (byte 47).
SplitFile(path) == SubSeq(path, LastIndexByte(path, 47) + 1, Len(path))

\* filepath.Ext(name): the suffix starting at the last '.' (byte 46) of the
\* final path element, empty when that element has no dot.
Ext(name) ==
    LET base == SplitFile(name)
        i    == LastIndexByte(base, 46)
    IN  IF i = 0 THEN << >> ELSE SubSeq(base, i, Len(base))

HasSuffix(s, suf) ==
    /\ Len(s) >= Len(suf)
    /\ SubSeq(s, Len(s) - Len(suf) + 1, Len(s)) = suf

\* strings.TrimSuffix
TrimSuffix(s, suf) ==
    IF HasSuffix(s, suf) THEN SubSeq(s, 1, Len(s) - Len(suf)) ELSE s

\* ".json"
DotJson == <<46, 106, 115, 111, 110>>

\* bytes.Compare(a, b) < 0: the key order of a bolt bucket.
RECURSIVE BytesLess(_, _)
BytesLess(a, b) ==
    IF Len(b) = 0 THEN FALSE
    ELSE IF Len(a) = 0 THEN TRUE
    ELSE IF a[1] # b[1] THEN a[1] < b[1]
    ELSE BytesLess(Tail(a), Tail(b))

\* ------------------------------------------------------------- program data
\* The fixed 404 page served for a missing configuration (line 31; the text of
\* its markdown body is abbreviated to ASCII here).
page404Data ==
    "{\"type\":\"page\",\"title\":\"404\",\"body\":[{\"type\":\"markdown\",\"value\":\"# Oops\"}],\"regions\":[\"body\"]}"

\* "static", and the separator
StaticDir == <<115, 116, 97, 116, 105, 99>>
Slash == <<47>>

\* The entries fs.WalkDir can visit, in its lexical order.  The template is
\* always bundled (main stops when no *.tmpl parses); each json file may or
\* may not be part of a build.
\*   1 static/            2 static/a.json    3 static/amis.tmpl
\*   4 static/b.json      5 static/s/        6 static/s/a.json
WalkUniverse ==
    << [path |-> StaticDir, isDir |-> TRUE, data |-> ""],
       [path |-> StaticDir \o Slash \o <<97>> \o DotJson, isDir |-> FALSE,
        data |-> "{\"seed\":\"a\"}"],
       [path |-> StaticDir \o Slash \o <<97, 109, 105, 115, 46, 116, 109, 112, 108>>,
        isDir |-> FALSE, data |-> "<html>"],
       [path |-> StaticDir \o Slash \o <<98>> \o DotJson, isDir |-> FALSE,
        data |-> "{\"seed\":\"b\"}"],
       [path |-> StaticDir \o Slash \o <<115>>, isDir |-> TRUE, data |-> ""],
       [path |-> StaticDir \o Slash \o <<115>> \o Slash \o <<97>> \o DotJson,
        isDir |-> FALSE, data |-> "{\"seed\":\"s/a\"}"] >>

RECURSIVE PickEntries(_, _)
PickEntries(i, chosen) ==
    IF i > Len(WalkUniverse) THEN << >>
    ELSE IF i \in chosen THEN <<WalkUniverse[i]>> \o PickEntries(i + 1, chosen)
    ELSE PickEntries(i + 1, chosen)

\* The builds considered: every choice of json files; a directory is embedded
\* exactly when it holds a file.
Bundles ==
    { PickEntries(1, {1, 3} \cup js \cup (IF 6 \in js THEN {5} ELSE {}))
        : js \in SUBSET {2, 4, 6} }

\* Request inputs: c.Param("name") / pageItem.Name, and pageItem.Config.
ReqNames == { << >>, <<97>>, <<97, 98>> }
ReqConfigs == { "", "{}", "{not json" }

Procs == {1, 2}

\* ------------------------------------------------------------ bolt buckets
\* A bucket is a function from its keys to their values.
EmptyBucket == [k \in {} |-> ""]

\* What bucket.Get yields: nil for a missing key, else the stored bytes.
NilValue == [isNil |-> TRUE, bytes |-> ""]

BucketGet(b, key) ==
    IF key \in DOMAIN b THEN [isNil |-> FALSE, bytes |-> b[key]] ELSE NilValue

\* bucket.Put: refuses the empty key, otherwise upserts.
BucketPut(b, key, value) ==
    IF key = << >> THEN [err |-> "key required", bucket |-> b]
    ELSE [err |-> "",
          bucket |-> [k \in DOMAIN b \cup {key} |-> IF k = key THEN value ELSE b[k]]]

\* bucket.Delete: removes the key when present, succeeds either way.
BucketDelete(b, key) ==
    [err |-> "", bucket |-> [k \in DOMAIN b \ {key} |-> b[k]]]

\* The cursor of bucket.ForEach: the smallest key after the last one visited
\* (after.none: nothing visited yet).
CursorNext(b, after) ==
    LET rest == { k \in DOMAIN b : after.none \/ BytesLess(after.key, k) }
    IN  IF rest = {} THEN [none |-> TRUE, key |-> << >>]
        ELSE [none |-> FALSE,
              key |-> CHOOSE k \in rest : \A j \in rest : j = k \/ BytesLess(k, j)]

\* --------------------------------------------------------------- seed walk
\* The key a bundled file is stored under (line 78).
SeedName(filename) == TrimSuffix(filename, Ext(filename))

\* mutant: a seed is written only where the name is not stored yet
MWalkFuncPutIfAbsent(bucket, entry, readOK) ==
    LET filename == SplitFile(entry.path)
        name     == SeedName(filename)
    IN  IF entry.isDir \/ Ext(filename) # DotJson \/ ~readOK
           \/ name \in DOMAIN bucket
        THEN bucket
        ELSE BucketPut(bucket, name, entry.data).bucket
\* The fs.WalkDir callback of initBoltDB: directories and files without the
\* .json extension are skipped, a failed read or a failed put is logged and
\* skipped, and every other file is put under its name.
WalkFunc(bucket, entry, readOK) ==
    LET filename == SplitFile(entry.path)
    IN  IF entry.isDir THEN bucket
        ELSE IF Ext(filename) # DotJson THEN bucket
        ELSE IF ~readOK THEN bucket
        ELSE BucketPut(bucket, SeedName(filename), entry.data).bucket

\* fs.WalkDir over the bundle, entry by entry; unread: the indices whose
\* ReadFile fails.
RECURSIVE WalkDir(_, _, _, _)
WalkDir(bucket, entries, i, unread) ==
    IF i > Len(entries) THEN bucket
    ELSE WalkDir(WalkFunc(bucket, entries[i], i \notin unread), entries, i + 1, unread)

\* ------------------------------------------------------------------- state
VARIABLES
    phase,     \* "boot": before initBoltDB; "serving": engine.Run; "dead": exited
    db,        \* committed contents of amis.db: [hasBucket, bucket]
    seeds,     \* the embedded static directory of this build, in walk order
    rwlock,    \* holder of bolt's writer lock, 0 when free
    pc,        \* per handler goroutine: its position
    req,       \* per handler: the request it serves [op, name, config]
    snap,      \* per handler: the contents its open transaction sees
    cur,       \* per handler: the ForEach cursor
    pages,     \* per handler: listConfig's pages slice
    pageData,  \* per handler: getConfig's pageData slice
    staleBy,   \* per handler: keys of the write transactions committed since
               \* pageData's transaction closed
    out,       \* the last output of the process: the log of initBoltDB
               \* or the response of the handler that finished last
    nreq       \* requests accepted and restarts so far

vars == <<phase, db, seeds, rwlock, pc, req, snap, cur, pages,
          pageData, staleBy, out, nreq>>

ColdFile == [hasBucket |-> FALSE, bucket |-> EmptyBucket]
NoReq == [op |-> "none", name |-> << >>, config |-> ""]
NoCursor == [none |-> TRUE, key |-> << >>]
\* What initBoltDB logs: the files it could not read, and whether its Batch
\* committed (opened = FALSE: log.Fatalln after a failed bolt.Open).
InitOutput(opened, unread, committed) ==
    [op |-> "init", opened |-> opened, unread |-> unread, committed |-> committed]

Response(r, kind, status, msg, items, body) ==
    [op |-> r.op, name |-> r.name, config |-> r.config, kind |-> kind,
     status |-> status, msg |-> msg, items |-> items, total |-> Len(items),
     body |-> body]
NoResp == Response(NoReq, "none", 0, "", << >>, "")
\* c.JSON / c.AbortWithStatusJSON of a basicResp without data
BasicResp(r, status, msg) == Response(r, "json", status, msg, << >>, "")
\* gin's recovery middleware answering a handler panic with status 500
PanicResp(r) == Response(r, "panic", 500, "nil bucket", << >>, "")

Init ==
    /\ phase = "boot"
    /\ db = ColdFile
    /\ seeds \in Bundles
    /\ rwlock = 0
    /\ pc = [p \in Procs |-> "idle"]
    /\ req = [p \in Procs |-> NoReq]
    /\ snap = [p \in Procs |-> ColdFile]
    /\ cur = [p \in Procs |-> NoCursor]
    /\ pages = [p \in Procs |-> << >>]
    /\ pageData = [p \in Procs |-> NilValue]
    /\ staleBy = [p \in Procs |-> {}]
    /\ out = NoResp
    /\ nreq = 0

\* Indices of the bundled files initBoltDB reads.
ReadIndices(entries) ==
    { i \in 1..Len(entries) :
        ~entries[i].isDir /\ Ext(SplitFile(entries[i].path)) = DotJson }

\* ---------------------------------------------------------------- start-up
\* initBoltDB (lines 46-87) up to engine.Run: a failed bolt.Open ends the
\* process; the Batch creates the bucket and walks the bundle in one write
\* transaction whose error is discarded.
InitBoltDB ==
    /\ phase = "boot"
    /\ \E openOK \in BOOLEAN, commitOK \in BOOLEAN,
          unread \in SUBSET ReadIndices(seeds) :
         IF ~openOK
         THEN /\ phase' = "dead"
              /\ out' = InitOutput(FALSE, {}, FALSE)
              /\ UNCHANGED db
         ELSE /\ phase' = "serving"
              /\ out' = InitOutput(TRUE, unread, commitOK)
              /\ db' = IF commitOK
                       THEN [hasBucket |-> TRUE,
                             bucket |-> WalkDir(db.bucket, seeds, 1, unread)]
                       ELSE db
    /\ UNCHANGED <<seeds, rwlock, pc, req, snap, cur, pages, pageData,
                   staleBy, nreq>>

\* The process stops (at any point) and is started again on the same file.
Restart ==
    /\ phase \in {"serving", "dead"}
    /\ nreq < MaxRequests
    /\ phase' = "boot"
    /\ rwlock' = 0
    /\ pc' = [p \in Procs |-> "idle"]
    /\ req' = [p \in Procs |-> NoReq]
    /\ snap' = [p \in Procs |-> ColdFile]
    /\ cur' = [p \in Procs |-> NoCursor]
    /\ pages' = [p \in Procs |-> << >>]
    /\ pageData' = [p \in Procs |-> NilValue]
    /\ staleBy' = [p \in Procs |-> {}]
    /\ out' = NoResp
    /\ nreq' = nreq + 1
    /\ UNCHANGED <<db, seeds>>

\* A handler starts on a request; of the idle goroutines, which are alike,
\* the first takes it.
Accepts(p) ==
    /\ phase = "serving"
    /\ pc[p] = "idle"
    /\ \A q \in Procs : q < p => pc[q] # "idle"
    /\ nreq < MaxRequests
    /\ nreq' = nreq + 1

\* The handler of p answers r and returns.
Finish(p, r) ==
    /\ out' = r
    /\ pc' = [pc EXCEPT ![p] = "idle"]
    /\ req' = [req EXCEPT ![p] = NoReq]
    /\ snap' = [snap EXCEPT ![p] = ColdFile]
    /\ cur' = [cur EXCEPT ![p] = NoCursor]
    /\ pages' = [pages EXCEPT ![p] = << >>]
    /\ pageData' = [pageData EXCEPT ![p] = NilValue]

\* --------------------------------------------------------------- listConfig
\* mutant: the iteration reads the live contents instead of its snapshot
MListTxViewLive(p) == db
\* The contents the read transaction of p iterates: those committed when
\* boltDB.View began it.
ListTxView(p) == snap[p]

\* lines 138-141: boltDB.View begins a read transaction; tx.Bucket is nil
\* when the bucket was never created, and ForEach on it panics.
ListConfig(p) ==
    /\ Accepts(p)
    /\ LET r == [op |-> "list", name |-> << >>, config |-> ""]
       IN  IF ~db.hasBucket
           THEN Finish(p, PanicResp(r))
           ELSE /\ pc' = [pc EXCEPT ![p] = "list_iter"]
                /\ req' = [req EXCEPT ![p] = r]
                /\ snap' = [snap EXCEPT ![p] = db]
                /\ UNCHANGED <<cur, pages, pageData, out>>
    /\ UNCHANGED <<phase, db, seeds, rwlock, staleBy>>

\* lines 142-153: one ForEach visit appends a pageItem; after the last key
\* the transaction closes and the items and their count are answered.
ListStep(p) ==
    /\ phase = "serving"
    /\ pc[p] = "list_iter"
    /\ LET view == ListTxView(p).bucket
           nxt  == CursorNext(view, cur[p])
       IN  IF nxt.none
           THEN Finish(p, Response(req[p], "json", 0, "", pages[p], ""))
           ELSE /\ cur' = [cur EXCEPT ![p] = nxt]
                /\ pages' = [pages EXCEPT ![p] =
                       Append(@, [name |-> nxt.key, config |-> view[nxt.key]])]
                /\ UNCHANGED <<pc, req, snap, pageData, out>>
    /\ UNCHANGED <<phase, db, seeds, rwlock, staleBy, nreq>>

\* ---------------------------------------------------------------- getConfig
\* mutant: the empty name is answered like a missing page
MGetConfigEmptyNameFallback(name) ==
    [kind |-> "data", status |-> 0, msg |-> "", body |-> page404Data]
\* lines 158-161: what getConfig answers to the empty name.
GetConfigEmptyName(name) ==
    [kind |-> "json", status |-> -1, msg |-> "name is empty", body |-> ""]

\* lines 168-171: the 404 page stands in for a pageData of length 0.
GetConfigBody(value) ==
    IF value.isNil \/ value.bytes = "" THEN page404Data ELSE value.bytes

\* lines 156-167: the name check, then one read transaction that leaves the
\* slice bucket.Get returned in pageData and closes.
GetConfig(p, name) ==
    /\ Accepts(p)
    /\ LET r == [op |-> "get", name |-> name, config |-> ""]
       IN  IF name = << >>
           THEN LET e == GetConfigEmptyName(name)
                IN  Finish(p, Response(r, e.kind, e.status, e.msg, << >>, e.body))
           ELSE IF ~db.hasBucket
           THEN Finish(p, PanicResp(r))
           ELSE /\ pc' = [pc EXCEPT ![p] = "get_resp"]
                /\ req' = [req EXCEPT ![p] = r]
                /\ pageData' = [pageData EXCEPT ![p] = BucketGet(db.bucket, name)]
                /\ UNCHANGED <<snap, cur, pages, out>>
    /\ staleBy' = [staleBy EXCEPT ![p] = {}]
    /\ UNCHANGED <<phase, db, seeds, rwlock>>

\* The bytes a slice into the store's memory map may hold once a later write
\* transaction has reused or remapped its pages.
StaleBytes ==
    (ReqConfigs \cup { WalkUniverse[i].data : i \in ReadIndices(WalkUniverse) }) \ {""}

\* lines 169-172: c.Data copies pageData after its transaction has closed.
\* bolt keeps the bytes valid only while the transaction is open: once a
\* write transaction has run its commit, a non-empty pageData may read as the
\* stored bytes, as other bytes, or fault and end the process.
GetRespond(p) ==
    /\ phase = "serving"
    /\ pc[p] = "get_resp"
    /\ LET v == pageData[p]
           dangling == staleBy[p] # {} /\ ~v.isNil /\ v.bytes # ""
       IN  \/ /\ \E b \in (IF dangling THEN StaleBytes ELSE {}) \cup {GetConfigBody(v)} :
                    Finish(p, Response(req[p], "data", 0, "", << >>, b))
              /\ UNCHANGED phase
           \/ /\ dangling
              /\ phase' = "dead"
              /\ pc' = [pc EXCEPT ![p] = "fault"]
              /\ UNCHANGED <<req, snap, cur, pages, pageData, out>>
    /\ staleBy' = [staleBy EXCEPT ![p] = {}]
    /\ UNCHANGED <<db, seeds, rwlock, nreq>>

\* ------------------------------------------------- deleteConfig / saveConfig
\* lines 177-180
DeleteConfig(p, name) ==
    /\ Accepts(p)
    /\ LET r == [op |-> "delete", name |-> name, config |-> ""]
       IN  IF name = << >>
           THEN Finish(p, BasicResp(r, -1, "name is empty"))
           ELSE /\ pc' = [pc EXCEPT ![p] = "write_lock"]
                /\ req' = [req EXCEPT ![p] = r]
                /\ UNCHANGED <<snap, cur, pages, pageData, out>>
    /\ UNCHANGED <<phase, db, seeds, rwlock, staleBy>>

\* c.ShouldBindJSON(req) (line 193): the body must decode into a pageItem.
\* gin validates fields by their `binding` tags; pageItem carries `validate`
\* tags only, so no field rule is applied.
ShouldBindJSON(bodyOK, name, config) ==
    IF bodyOK THEN "" ELSE "invalid request body"

\* The request bodies: one that does not decode into a pageItem (req keeps
\* its zero values), and one per decoded name and config.
SaveBodies ==
    { [bodyOK |-> FALSE, name |-> << >>, config |-> ""] }
    \cup { [bodyOK |-> TRUE, name |-> n, config |-> c] : n \in ReqNames, c \in ReqConfigs }

\* lines 192-196
SaveConfig(p, body) ==
    /\ Accepts(p)
    /\ LET r == [op |-> "save", name |-> body.name, config |-> body.config]
           e == ShouldBindJSON(body.bodyOK, body.name, body.config)
       IN  IF e # ""
           THEN Finish(p, BasicResp(r, -1, e))
           ELSE /\ pc' = [pc EXCEPT ![p] = "write_lock"]
                /\ req' = [req EXCEPT ![p] = r]
                /\ UNCHANGED <<snap, cur, pages, pageData, out>>
    /\ UNCHANGED <<phase, db, seeds, rwlock, staleBy>>

\* mutant: Update does not wait for the writer lock
MRWLockFreeAlways == TRUE
\* boltDB.Update waits for the writer lock.
RWLockFree == rwlock = 0

\* boltDB.Update (lines 181, 197) begins the read-write transaction on the
\* contents committed at that moment.
UpdateBegin(p) ==
    /\ phase = "serving"
    /\ pc[p] = "write_lock"
    /\ RWLockFree
    /\ rwlock' = p
    /\ snap' = [snap EXCEPT ![p] = db]
    /\ pc' = [pc EXCEPT ![p] = "write_tx"]
    /\ UNCHANGED <<phase, db, seeds, req, cur, pages, pageData,
                   staleBy, out, nreq>>

\* The bucket operation of the handler, on the bucket of its transaction.
TxWrite(p) ==
    IF req[p].op = "delete"
    THEN BucketDelete(snap[p].bucket, req[p].name)
    ELSE BucketPut(snap[p].bucket, req[p].name, req[p].config)

SuccessMsg(op) ==
    IF op = "delete" THEN "delete page config successfully"
    ELSE "save page config successfully"

\* A committed write transaction invalidates the slices read earlier.
Invalidate(p) ==
    staleBy' = [q \in Procs |->
                  IF pc[q] = "get_resp" THEN staleBy[q] \cup {req[p].name}
                  ELSE staleBy[q]]

\* lines 181-188 and 197-204: the function passed to Update, then commit or
\* rollback, the release of the writer lock and the answer.  A nil bucket
\* panics (rolled back, answered by the recovery middleware); an error of
\* the bucket operation rolls back; the commit itself can fail on I/O.
UpdateCommit(p) ==
    /\ phase = "serving"
    /\ pc[p] = "write_tx"
    /\ rwlock' = IF rwlock = p THEN 0 ELSE rwlock
    /\ IF ~snap[p].hasBucket
       THEN /\ Finish(p, PanicResp(req[p]))
            /\ UNCHANGED <<db, staleBy>>
       ELSE LET w == TxWrite(p)
            IN  IF w.err # ""
                THEN /\ Finish(p, BasicResp(req[p], -1, w.err))
                     /\ UNCHANGED <<db, staleBy>>
                ELSE \E commitOK \in BOOLEAN :
                       IF commitOK
                       THEN /\ db' = [hasBucket |-> TRUE, bucket |-> w.bucket]
                            /\ Invalidate(p)
                            /\ Finish(p, BasicResp(req[p], 0, SuccessMsg(req[p].op)))
                       ELSE /\ Finish(p, BasicResp(req[p], -1, "commit failed"))
                            /\ UNCHANGED <<db, staleBy>>
    /\ UNCHANGED <<phase, seeds, nreq>>

\* ------------------------------------------------------------ specification
Next ==
    \/ InitBoltDB
    \/ Restart
    \/ \E p \in Procs : ListConfig(p)
    \/ \E p \in Procs : ListStep(p)
    \/ \E p \in Procs, name \in ReqNames : GetConfig(p, name)
    \/ \E p \in Procs : GetRespond(p)
    \/ \E p \in Procs, name \in ReqNames : DeleteConfig(p, name)
    \/ \E p \in Procs, body \in SaveBodies : SaveConfig(p, body)
    \/ \E p \in Procs : UpdateBegin(p)
    \/ \E p \in Procs : UpdateCommit(p)

Spec == Init /\ [][Next]_vars

\* ============================================================ claim checks
\* The documents of the model that are syntactically valid, non-empty JSON.
ValidDocs == StaleBytes \ {"{not json"}

\* Steps of the handlers, recognised by what they change.
Accepting == phase = "serving" /\ phase' = "serving" /\ nreq' = nreq + 1
\* a call of op on name: the handler either goes on or answers at once
Calls(op, name) ==
    /\ Accepting
    /\ \/ \E p \in Procs : pc[p] = "idle" /\ pc'[p] # "idle"
                             /\ req'[p].op = op /\ req'[p].name = name
       \/ pc' = pc /\ out'.op = op /\ out'.name = name
\* getConfig of p reaches c.Data (or faults there)
GetReturns(p) ==
    pc[p] = "get_resp" /\ phase' # "boot" /\ pc'[p] \in {"idle", "fault"}
ListReturns(p) == pc[p] = "list_iter" /\ pc'[p] = "idle" /\ phase' = "serving"
UpdateReturns(p) == pc[p] = "write_tx" /\ pc'[p] = "idle" /\ phase' = "serving"

\* C1 (round trip): a get(n) that answers while the store holds the valid,
\* non-empty document d for n (the state a successful save(n, d) leaves),
\* with no write of n since its read, answers exactly d.
C1_RoundTrip ==
    [][\A p \in Procs :
         LET n == req[p].name
         IN  ( /\ GetReturns(p)
               /\ n \in DOMAIN db.bucket
               /\ db.bucket[n] \in ValidDocs
               /\ n \notin staleBy[p] )
             => ( /\ phase' = "serving"
                  /\ out' = Response(req[p], "data", 0, "", << >>, db.bucket[n]) )
      ]_vars

\* C1, in the runs where no write transaction commits between the read and
\* the answer of the get: the stored document is answered.
C1_RoundTripUndisturbed ==
    [][\A p \in Procs :
         LET n == req[p].name
         IN  ( /\ GetReturns(p)
               /\ n \in DOMAIN db.bucket
               /\ db.bucket[n] \in ValidDocs
               /\ staleBy[p] = {} )
             => ( /\ phase' = "serving"
                  /\ out' = Response(req[p], "data", 0, "", << >>, db.bucket[n]) )
      ]_vars

\* C2 (validation rejection): a save whose name is empty, whose document is
\* empty or whose document is not valid JSON fails and leaves the store as
\* it was.
C2_ValidationRejection ==
    [][\A p \in Procs :
         ( /\ UpdateReturns(p)
           /\ req[p].op = "save"
           /\ \/ req[p].name = << >>
              \/ req[p].config \notin ValidDocs )
         => (out'.status # 0 /\ db' = db)
      ]_vars

\* C3 (fallback on miss): get(n) for a non-empty n without a stored entry
\* reads nothing, answers exactly the 404 document with no error and leaves
\* the store unchanged.
C3_FallbackOnMiss ==
    [][/\ \A n \in ReqNames \ {<< >>} :
            (Calls("get", n) /\ n \notin DOMAIN db.bucket)
            => ( /\ \E p \in Procs : pc'[p] = "get_resp" /\ pc[p] = "idle"
                                      /\ pageData'[p].isNil
                 /\ db' = db )
       /\ \A p \in Procs :
            (GetReturns(p) /\ pageData[p].isNil)
            => ( /\ out' = Response(req[p], "data", 0, "", << >>, page404Data)
                 /\ db' = db /\ phase' = "serving" )
      ]_vars

\* C3 where the bucket exists.
C3_FallbackWithBucket ==
    [][/\ \A n \in ReqNames \ {<< >>} :
            (Calls("get", n) /\ db.hasBucket /\ n \notin DOMAIN db.bucket)
            => ( /\ \E p \in Procs : pc'[p] = "get_resp" /\ pc[p] = "idle"
                                      /\ pageData'[p].isNil
                 /\ db' = db )
       /\ \A p \in Procs :
            (GetReturns(p) /\ pageData[p].isNil)
            => ( /\ out' = Response(req[p], "data", 0, "", << >>, page404Data)
                 /\ db' = db /\ phase' = "serving" )
      ]_vars

\* C4 as claimed (get never fails): the answer to get("") is the 404
\* document, not an error.
C4_GetNeverFails ==
    (out.op = "get" /\ out.name = << >>)
    => (out.kind = "data" /\ out.body = page404Data)

\* C4 as amended: get("") answers the error outcome (status -1, "name is
\* empty") at once, without a transaction, a document or a change of the
\* store.
C4_EmptyNameRejected ==
    [][Calls("get", << >>)
       => ( /\ out' = BasicResp([op |-> "get", name |-> << >>, config |-> ""],
                                -1, "name is empty")
            /\ pc' = pc /\ db' = db /\ pageData' = pageData )
      ]_vars

C4_Witness ==
    out.op = "get" /\ out.name = << >> /\ out.kind = "json" /\ out.status = -1

\* A bucket without the key n, and a bucket with n set to d, said directly.
Without(b, n) == [k \in DOMAIN b \ {n} |-> b[k]]
With(b, n, d) == [k \in DOMAIN b \cup {n} |-> IF k = n THEN d ELSE b[k]]

\* C5 (idempotent delete): delete(n) of a non-empty n without an entry
\* succeeds (short of a failed commit) and leaves the store unchanged; a
\* successful delete(n) leaves no entry for n and every other entry as it was;
\* deleting n twice leaves the bucket and the outcome of deleting it once.
C5_IdempotentDelete ==
    [][\A p \in Procs :
         LET n == req[p].name
         IN  (UpdateReturns(p) /\ req[p].op = "delete")
             => /\ n \notin DOMAIN db.bucket
                   => ( /\ db' = db
                        /\ out'.kind = "json"
                        /\ out'.status = 0 \/ out'.msg = "commit failed" )
                /\ out'.status = 0
                   => ( /\ n \notin DOMAIN db'.bucket
                        /\ db'.bucket = Without(db.bucket, n) )
                /\ LET once  == BucketDelete(db.bucket, n)
                       twice == BucketDelete(once.bucket, n)
                   IN  twice = once
      ]_vars

\* C5 where the bucket exists.
C5_IdempotentDeleteWithBucket ==
    [][\A p \in Procs :
         LET n == req[p].name
         IN  (UpdateReturns(p) /\ req[p].op = "delete" /\ snap[p].hasBucket)
             => /\ n \notin DOMAIN db.bucket
                   => ( /\ db' = db
                        /\ out'.kind = "json"
                        /\ out'.status = 0 \/ out'.msg = "commit failed" )
                /\ out'.status = 0
                   => ( /\ n \notin DOMAIN db'.bucket
                        /\ db'.bucket = Without(db.bucket, n) )
                /\ LET once  == BucketDelete(db.bucket, n)
                       twice == BucketDelete(once.bucket, n)
                   IN  twice = once
      ]_vars

\* The seed documents of a bundle, said from the file names: entry i is one
\* when it is a file whose name ends in ".json"; its name is the file name
\* without these five bytes.
IsSeedDoc(entries, i) ==
    /\ ~entries[i].isDir
    /\ HasSuffix(entries[i].path, DotJson)
SeedDocName(entries, i) ==
    LET f == SplitFile(entries[i].path) IN SubSeq(f, 1, Len(f) - Len(DotJson))
\* the seed documents read and put successfully, given the unread ones
SeedsWritten(entries, unread) ==
    { i \in 1..Len(entries) :
        IsSeedDoc(entries, i) /\ i \notin unread /\ SeedDocName(entries, i) # << >> }

\* C6 (seed loading): when the start-up transaction commits, every name with
\* a seed document that was read and put holds the document of the last such
\* file in walk order, whatever it held before, and every other name holds
\* what it held before (none added, changed or removed); an unread document
\* does not keep the others from being written.  When it does not commit,
\* the store is as before.
C6_SeedLoading ==
    [][(phase = "boot" /\ phase' = "serving")
       => LET P       == db.bucket
              written == SeedsWritten(seeds, out'.unread)
              names   == { SeedDocName(seeds, i) : i \in written }
              last(n) == CHOOSE i \in written :
                            /\ SeedDocName(seeds, i) = n
                            /\ \A j \in written : SeedDocName(seeds, j) = n => j <= i
          IN  IF out'.committed
              THEN /\ db'.hasBucket
                   /\ DOMAIN db'.bucket = DOMAIN P \cup names
                   /\ \A n \in names : db'.bucket[n] = seeds[last(n)].data
                   /\ \A n \in DOMAIN P \ names : db'.bucket[n] = P[n]
              ELSE db' = db
      ]_vars

\* A start-up that committed although a seed document was unread, on a file
\* that already held a page under a non-seed name and one under a seed name.
C6_Witness ==
    /\ out.op = "init" /\ out.committed /\ out.unread # {}
    /\ nreq > 0
    /\ <<97, 98>> \in DOMAIN db.bucket
    /\ <<97>> \in DOMAIN db.bucket
    /\ db.bucket[<<97>>] = "{\"seed\":\"a\"}"

\* C7 (list completeness): list() answers one item per stored entry, each
\* with the stored document, total the number of items, the names strictly
\* ascending in byte order.
C7_ListCompleteness ==
    [][/\ Calls("list", << >>)
          => \E p \in Procs : pc[p] = "idle" /\ pc'[p] = "list_iter" /\ snap'[p] = db
       /\ \A p \in Procs :
            ListReturns(p)
            => LET items == out'.items
                   b     == snap[p].bucket
               IN  /\ out'.kind = "json" /\ out'.status = 0
                   /\ out'.total = Len(items)
                   /\ Len(items) = Cardinality(DOMAIN b)
                   /\ { items[i].name : i \in 1..Len(items) } = DOMAIN b
                   /\ \A i \in 1..Len(items) : items[i].config = b[items[i].name]
                   /\ \A i \in 1..Len(items) - 1 :
                        BytesLess(items[i].name, items[i + 1].name)
      ]_vars

\* C7 where the bucket exists.
C7_ListCompletenessWithBucket ==
    [][/\ (Calls("list", << >>) /\ db.hasBucket)
          => \E p \in Procs : pc[p] = "idle" /\ pc'[p] = "list_iter" /\ snap'[p] = db
       /\ \A p \in Procs :
            ListReturns(p)
            => LET items == out'.items
                   b     == snap[p].bucket
               IN  /\ out'.kind = "json" /\ out'.status = 0
                   /\ out'.total = Len(items)
                   /\ Len(items) = Cardinality(DOMAIN b)
                   /\ { items[i].name : i \in 1..Len(items) } = DOMAIN b
                   /\ \A i \in 1..Len(items) : items[i].config = b[items[i].name]
                   /\ \A i \in 1..Len(items) - 1 :
                        BytesLess(items[i].name, items[i + 1].name)
      ]_vars

\* C8 (concurrent isolation): a read transaction sees the contents committed
\* when it began: list keeps that view while writers commit and answers
\* exactly its entries, never a mix; a read begun after a commit sees it.
C8_ReadIsolation ==
    [][\A p \in Procs :
         /\ (pc[p] = "idle" /\ pc'[p] = "list_iter") => snap'[p] = db
         /\ (pc[p] = "list_iter" /\ pc'[p] = "list_iter")
            => ( /\ snap'[p] = snap[p]
                 /\ \A i \in 1..Len(pages'[p]) :
                      /\ pages'[p][i].name \in DOMAIN snap[p].bucket
                      /\ pages'[p][i].config = snap[p].bucket[pages'[p][i].name] )
         /\ ListReturns(p)
            => ( /\ Len(out'.items) = Cardinality(DOMAIN snap[p].bucket)
                 /\ { <<out'.items[i].name, out'.items[i].config>> :
                        i \in 1..Len(out'.items) }
                    = { <<k, snap[p].bucket[k]>> : k \in DOMAIN snap[p].bucket } )
         /\ (pc[p] = "idle" /\ pc'[p] = "get_resp")
            => pageData'[p] = BucketGet(db.bucket, req'[p].name)
      ]_vars

\* A list in the middle of its iteration after a writer has committed a
\* change of an entry it has not visited yet.
C8_Witness ==
    \E p \in Procs :
       /\ pc[p] = "list_iter"
       /\ pages[p] # << >>
       /\ snap[p] # db
       /\ \E k \in DOMAIN snap[p].bucket \cup DOMAIN db.bucket :
            /\ BytesLess(cur[p].key, k)
            /\ BucketGet(db.bucket, k) # BucketGet(snap[p].bucket, k)

\* C9 (serialized writers): at most one read-write transaction is open, and
\* each commit turns the committed contents into those contents with the one
\* write applied, so the writes take effect one after another in commit
\* order and the last commit on a name decides its value.
C9_SerializedWriters ==
    [][/\ Cardinality({ p \in Procs : pc'[p] = "write_tx" }) <= 1
       /\ \A p \in Procs : pc'[p] = "write_tx" => rwlock' = p
       /\ \A p \in Procs :
            (UpdateReturns(p) /\ out'.status = 0)
            => db'.bucket = IF req[p].op = "delete"
                            THEN Without(db.bucket, req[p].name)
                            ELSE With(db.bucket, req[p].name, req[p].config)
      ]_vars

\* One writer holds its transaction open while another, writing the same
\* name, waits for the lock.
C9_Witness ==
    \E p, q \in Procs :
       /\ pc[p] = "write_tx" /\ pc[q] = "write_lock"
       /\ req[p].name = req[q].name
       /\ req[p].config # req[q].config

\* C10 (namespace before use): while requests are served the page bucket
\* exists, also after a start-up whose transaction failed.
C10_NamespaceBeforeUse == phase = "serving" => db.hasBucket

====
